---- MODULE Spec2Model ----
(***************************************************************************)
(* A model of the Rainbow/DQN agent of src/agent.py and of the value       *)
(* models of src/rainbow/models.py.                                        *)
(*                                                                         *)
(* Spec       the training run (Agent.train) and the evaluation run        *)
(*            (Agent.test) as a state machine over the agent's fields.     *)
(* SpecMem    the replay memory under arbitrary adds and batch requests.   *)
(* SpecTarget Agent.get_target applied to arbitrary arguments.             *)
(* SpecDistr  the target support and projection of                         *)
(*            Agent.get_distributional_loss on arbitrary arguments.        *)
(* SpecSoftmax LegalSoftmax.forward on arbitrary scores and masks.         *)
(*                                                                         *)
(* Real numbers are fixed point: eps in units of 1/EpsScale, the           *)
(* non-distributional target in units of 1/GammaDen.  A Python exception   *)
(* is the string naming it; a call whose number of arguments differs from  *)
(* the callee's signature raises TypeError, as CPython does.               *)
(*                                                                         *)
(* The environment is any gym environment that ends an episode within      *)
(* MaxSteps steps and pays a reward of 0 or 1, a non-zero one only on the  *)
(* terminal step (as FrozenLake, the environment of __main__, does); its   *)
(* step may raise.  The model parameters are abstracted to a version       *)
(* number, a transition to the number of the step that produced it.  The   *)
(* dueling variant is left out: its forward indexes the environment object *)
(* it is given as possible_moves, which depends on the environment class.  *)
(***************************************************************************)
EXTENDS Integers, Sequences, FiniteSets, TLC

VARIABLES
  cfg,          \* the constructor's arguments (Agent.__init__)
  pc,           \* position of the run: idle, loop, step, episode_end, done,
                \* test_step, test_done, failed
  err,          \* the exception that ended the run, or "none"
  i,            \* episode index of train's for loop
  t,            \* steps taken in the current episode
  eps,          \* self.eps, in units of 1/EpsScale
  memory,       \* self.memory: the stored transitions, oldest first
  nIns,         \* number of add_to_memory calls so far
  online,       \* self.model parameters: number of optimizer steps applied
  target,       \* self.model_target parameters: the online version copied
  rewards,      \* train's local rewards (return of the current episode)
  rewards_sum,  \* sum(rewards_lst)
  best_rate,    \* train's local best_rate, a fraction [num, den]
  saves,        \* number of torch.save calls
  save_kind,    \* what the last torch.save was: none, improved, final
  closes,       \* number of env.close calls
  batch,        \* the last random_batch request: [asked, occ, idx]
  noise,        \* the cached noise (eps_w, eps_b) of the noisy layers: the
                \* number of update_noise calls since construction
  fwd,          \* the last forward pass asked of self.model: [made, exc, noise]
  nEnv,         \* number of env.step calls train has got an answer from
  calls,        \* the calls completed in the latest pass of train's while loop
  inserted,     \* every transition handed to add_to_memory, in order
  arg,          \* the arguments of the function under study
  res           \* its result once pc = "returned"

vars == <<cfg, pc, err, i, t, eps, memory, nIns, online, target, rewards,
          rewards_sum, best_rate, saves, save_kind, closes, batch, noise, fwd,
          nEnv, calls, inserted, arg, res>>

\* What only a pass of train's while loop (and a forward pass) changes.
passVars == <<noise, fwd, nEnv, calls>>

\* What the training and evaluation runs leave alone.
fnVars == <<inserted, arg, res>>

(***************************************************************************)
(* Bounds of the model.                                                    *)
(***************************************************************************)
NumEpisodes == 21   \* num_episodes of the modelled runs
MaxSteps == 2       \* the environment ends an episode within MaxSteps steps
MemorySize == 3     \* memory_size of the modelled runs
EpsScale == 8       \* eps is a multiple of 1/EpsScale
MaxAdds == 4        \* add_to_memory calls of a replay-memory run
NumActions == 2     \* env.action_space.n
NumBins == 3        \* distr_params["num_bins"]
MassUnit == 4       \* a probability mass is a multiple of 1/MassUnit
BatchRows == 2      \* rows of the score tensor given to LegalSoftmax

(***************************************************************************)
(* Program constants.                                                      *)
(***************************************************************************)
SyncPeriod == 20        \* agent.py:190  not i % 20
CheckpointPeriod == 10  \* agent.py:196  not i % 10
GammaNum == 9           \* agent.py:41   gamma=0.9
GammaDen == 10
Sentinel == -1000       \* models.py:66

Rewards == {0, 1}
Variants == {"DQN", "NoisyNetwork", "DistributionalNetwork"}

Min(a, b) == IF a < b THEN a ELSE b

RECURSIVE Pow(_, _)
Pow(b, n) == IF n = 0 THEN 1 ELSE b * Pow(b, n - 1)

\* Rounding of the non-negative fraction n/d to the nearest integer.
Round(n, d) == (2 * n + d) \div (2 * d)

(***************************************************************************)
(* Calls into the value models.                                            *)
(***************************************************************************)
\* Number of arguments (besides self) of each model's forward.
ForwardArity(variant) ==
  CASE variant = "DQN" -> 2
    [] variant = "NoisyNetwork" -> 1
    [] variant = "DistributionalNetwork" -> 2

\* model(*args): the call goes through, or raises TypeError.
Forward(variant, nargs) ==
  IF nargs = ForwardArity(variant) THEN "ok" ELSE "TypeError"

\* NoisyLayer.update_noise (lines 133-135), for both layers of the network
\* (lines 99-101): a fresh draw replaces the cached noise.
update_noise(nz) == nz + 1

\* A forward pass asked of self.model with nargs arguments.  A noisy layer's
\* forward (line 143) reads the cached noise and leaves it as it is; a call
\* that raises reaches no layer.
ForwardPass(variant, nargs, nz) ==
  [made |-> TRUE, exc |-> Forward(variant, nargs),
   noise |-> IF Forward(variant, nargs) = "ok" THEN nz ELSE -1]

NoForward == [made |-> FALSE, exc |-> "ok", noise |-> 0]

\* DistributionalNetwork.action_distr(x, env) called with nargs arguments.
ActionDistr(nargs) == IF nargs = 2 THEN "ok" ELSE "TypeError"

(***************************************************************************)
(* Replay memory (memory_replay.ReplayMemory, which is not among the       *)
(* sources: modelled from the specification's section 4.1).                *)
(***************************************************************************)
\* An eviction of the newest stored transition instead of the oldest.
add_evicting_newest(mem, capacity, tr) ==
  IF Len(mem) >= capacity
  THEN Append(SubSeq(mem, 1, Len(mem) - 1), tr)
  ELSE Append(mem, tr)

add_to_memory(mem, capacity, tr) ==
  IF Len(mem) >= capacity THEN Append(Tail(mem), tr) ELSE Append(mem, tr)

\* The batches random_batch may return: n distinct stored transitions.
random_batch(mem, n) ==
  {S \in SUBSET (1 .. Len(mem)) : Cardinality(S) = n}

\* A batch request and its answer: the occupancy it met and the positions of
\* the transitions returned (none when the request is rejected).
BatchRequest(mem, S) == [asked |-> TRUE, occ |-> Len(mem), idx |-> S]

NoBatch == [asked |-> FALSE, occ |-> 0, idx |-> {}]

(***************************************************************************)
(* Agent.update and what it calls, as far as the run depends on it.        *)
(***************************************************************************)
\* The outcome of a call: a value, or the exception raised.
Ok(v) == [exc |-> "ok", val |-> v]
Raise(e) == [exc |-> e, val |-> 0]

\* Tensor.argmax: the first position of the largest entry.
ArgMax(q) ==
  CHOOSE a \in DOMAIN q :
    /\ \A b \in DOMAIN q : q[b] <= q[a]
    /\ \A b \in DOMAIN q : b < a => q[b] < q[a]

\* Lines 139-141.  q_online is self.model's output on next_state, q_target
\* self.model_target's; model_target is a DQN, called with next_state alone.
get_target_double(variant, q_online, q_target) ==
  IF Forward(variant, 2) # "ok" THEN Raise(Forward(variant, 2))
  ELSE IF Forward("DQN", 1) # "ok" THEN Raise(Forward("DQN", 1))
  ELSE Ok(q_target[ArgMax(q_online)])

\* Lines 143-153, the target in units of 1/GammaDen.
get_target(variant, is_double, reward, done, q_online, q_target) ==
  IF done THEN Ok(GammaDen * reward)
  ELSE LET next_state_max_Q ==
             IF is_double THEN get_target_double(variant, q_online, q_target)
             ELSE IF Forward(variant, 2) # "ok" THEN Raise(Forward(variant, 2))
             ELSE Ok(q_online[ArgMax(q_online)])
       IN IF next_state_max_Q.exc # "ok" THEN next_state_max_Q
          ELSE Ok(next_state_max_Q.val * GammaNum + GammaDen * reward)

\* The exception get_target raises, or "ok"; the values do not matter to it.
GetTargetRaises(variant, is_double, done) ==
  LET q == [a \in 1 .. NumActions |-> 0]
  IN get_target(variant, is_double, 0, done, q, q).exc

\* The exception update(reward, done, next_state, state, action) raises before
\* the optimizer step, or "ok".
UpdateRaises(variant, is_double, is_distributional, done) ==
  IF is_distributional THEN ActionDistr(1)
  ELSE IF GetTargetRaises(variant, is_double, done) # "ok"
    THEN GetTargetRaises(variant, is_double, done)
  ELSE Forward(variant, 2)

\* Lines 108-109: the noise after an update that got past the optimizer step.
NoiseAfterUpdate(is_noisy, nz) == IF is_noisy THEN update_noise(nz) ELSE nz

\* The forward pass last asked of self.model once update has run: update asks
\* none in the distributional branch (action_distr raises first), and
\* otherwise asks every one with (state, self.env).
ForwardAfterUpdate(variant, is_distributional, nz, before) ==
  IF is_distributional THEN before ELSE ForwardPass(variant, 2, nz)

\* Lines 177-184: the calls of one pass of the while loop, in their order.
PassCalls == <<"eps_greedy_action", "env.step", "add_to_memory", "update">>

\* The factor exp(-eps_decay * i) with exp(-eps_decay) = 1/2.
DecayNum(k) == 1
DecayDen(k) == Pow(2, k)

\* A decay toward zero instead of toward min_eps.
NextEpsTowardZero(e, min_eps, k) == Round(e * DecayNum(k), DecayDen(k))

\* Line 185: eps = min_eps + (eps - min_eps) * exp(-eps_decay * i).
NextEps(e, min_eps, k) ==
  min_eps + Round((e - min_eps) * DecayNum(k), DecayDen(k))

\* A sync in every episode.
SyncEveryEpisode(k, is_double) == is_double

\* Line 190: the target network is synced in this step.
SyncDue(k, is_double) == (k % SyncPeriod = 0) /\ is_double

\* A replay as soon as the memory holds anything.
ReplayWhenNonEmpty(mem, batch_size) == Len(mem) > 0

\* Line 193: replay is run at the end of the episode.
ReplayDue(mem, batch_size) == Len(mem) > batch_size

\* Line 196: the episode is a periodic checkpoint episode.
CheckpointDue(k) == (k % CheckpointPeriod = 0) /\ k # 0

\* A comparison that also accepts an equal rate.
NotWorse(sum, k, best) == sum * best.den >= best.num * k

\* Line 198: sum(rewards_lst) / i > best_rate.
Improved(sum, k, best) == sum * best.den > best.num * k

(***************************************************************************)
(* Initial state: the agent as constructed.                                *)
(***************************************************************************)
\* The model class follows the flags as in lines 68-75; is_noisy and
\* is_distributional are set for the class they select.
Configs ==
  { [variant |-> v, is_double |-> d,
     is_distributional |-> (v = "DistributionalNetwork"),
     is_noisy |-> (v = "NoisyNetwork"),
     memory_size |-> MemorySize, batch_size |-> b,
     eps0 |-> e, min_eps |-> 1, num_episodes |-> NumEpisodes] :
      v \in Variants, d \in BOOLEAN, b \in 1 .. MemorySize,
      e \in {EpsScale, EpsScale \div 2} }

\* __init__ with is_double loads the online state dict into a DQN, which
\* succeeds only when the online model is a DQN.
Constructible(c) == c.is_double => c.variant = "DQN"

Init ==
  /\ cfg \in {c \in Configs : Constructible(c)}
  /\ pc = "idle"
  /\ err = "none"
  /\ i = 0
  /\ t = 0
  /\ eps = cfg.eps0
  /\ memory = <<>>
  /\ nIns = 0
  /\ online = 0
  /\ target = 0
  /\ rewards = 0
  /\ rewards_sum = 0
  /\ best_rate = [num |-> 0, den |-> 1]
  /\ saves = 0
  /\ save_kind = "none"
  /\ closes = 0
  /\ noise = 0
  /\ fwd = NoForward
  /\ nEnv = 0
  /\ calls = <<>>
  /\ batch = NoBatch
  /\ inserted = <<>>
  /\ arg = "none"
  /\ res = "none"

Fail(e) == pc' = "failed" /\ err' = e

\* The transition (state, action, next_state, reward, done) that the k-th
\* environment step of the run produces, identified by k.
Transition(k) == [n |-> k]

(***************************************************************************)
(* Agent.train                                                             *)
(***************************************************************************)
\* train is called: lines 170-171.
StartTrain ==
  /\ pc = "idle"
  /\ pc' = "loop"
  /\ best_rate' = [num |-> 0, den |-> 1]
  /\ rewards_sum' = 0
  /\ i' = 0
  /\ UNCHANGED <<cfg, err, t, eps, memory, nIns, online, target, rewards,
                 saves, save_kind, closes, batch>>
  /\ UNCHANGED passVars
  /\ UNCHANGED fnVars

\* Lines 172-175: the next episode begins.
BeginEpisode ==
  /\ pc = "loop"
  /\ i < cfg.num_episodes
  /\ pc' = "step"
  /\ rewards' = 0
  /\ t' = 0
  /\ UNCHANGED <<cfg, err, i, eps, memory, nIns, online, target, rewards_sum,
                 best_rate, saves, save_kind, closes, batch>>
  /\ UNCHANGED passVars
  /\ UNCHANGED fnVars

\* Lines 177-191: one pass of the while loop.  explore is the outcome of
\* eps > np.random.random(); reward and done are the environment's answer.
Step(explore, reward, done) ==
  /\ pc = "step"
  /\ explore => eps > 0
  /\ ~explore => eps < EpsScale
  /\ (t + 1 >= MaxSteps) => done
  /\ (reward # 0) => done
  /\ LET act == IF explore THEN "ok" ELSE Forward(cfg.variant, 2)
         upd == UpdateRaises(cfg.variant, cfg.is_double,
                             cfg.is_distributional, done)
         tr  == Transition(nIns + 1)
         sel == IF explore THEN fwd ELSE ForwardPass(cfg.variant, 2, noise)
     IN IF act # "ok"
        THEN /\ Fail(act)
             /\ fwd' = sel
             /\ calls' = <<>>
             /\ UNCHANGED <<t, eps, memory, nIns, online, target, rewards,
                            rewards_sum, noise, nEnv>>
        ELSE /\ nEnv' = nEnv + 1
             /\ rewards' = rewards + reward
             /\ memory' = add_to_memory(memory, cfg.memory_size, tr)
             /\ nIns' = nIns + 1
             /\ fwd' = ForwardAfterUpdate(cfg.variant, cfg.is_distributional,
                                          noise, sel)
             /\ IF upd # "ok"
                THEN /\ Fail(upd)
                     /\ calls' = SubSeq(PassCalls, 1, 3)
                     /\ UNCHANGED <<t, eps, online, target, rewards_sum,
                                    noise>>
                ELSE /\ online' = online + 1
                     /\ noise' = NoiseAfterUpdate(cfg.is_noisy, noise)
                     /\ calls' = PassCalls
                     /\ eps' = NextEps(eps, cfg.min_eps, i)
                     /\ rewards_sum' = rewards_sum + rewards'
                     /\ target' = IF SyncDue(i, cfg.is_double)
                                  THEN online' ELSE target
                     /\ t' = t + 1
                     /\ pc' = IF done THEN "episode_end" ELSE "step"
                     /\ err' = err
  /\ UNCHANGED <<cfg, i, best_rate, saves, save_kind, closes, batch>>
  /\ UNCHANGED fnVars

\* env.step raises.
StepEnvFails ==
  /\ pc = "step"
  /\ Fail("EnvError")
  /\ UNCHANGED <<cfg, i, t, eps, memory, nIns, online, target, rewards,
                 rewards_sum, best_rate, saves, save_kind, closes, batch>>
  /\ calls' = SubSeq(PassCalls, 1, 1)
  /\ UNCHANGED <<noise, fwd, nEnv>>
  /\ UNCHANGED fnVars

\* Lines 193-200 and the loop's increment.  replay (lines 155-159) draws a
\* batch and calls self.update(state, target, action), three arguments for
\* a method of five: TypeError on the batch's first transition.
EpisodeEnd ==
  /\ pc = "episode_end"
  /\ IF ReplayDue(memory, cfg.batch_size)
     THEN /\ IF random_batch(memory, cfg.batch_size) = {}
             THEN batch' = BatchRequest(memory, {}) /\ Fail("ValueError")
             ELSE /\ \E S \in random_batch(memory, cfg.batch_size) :
                       batch' = BatchRequest(memory, S)
                  /\ Fail("TypeError")
          /\ UNCHANGED <<i, best_rate, saves, save_kind>>
     ELSE /\ batch' = batch
          /\ IF CheckpointDue(i) /\ Improved(rewards_sum, i, best_rate)
             THEN /\ best_rate' = [num |-> rewards_sum, den |-> i]
                  /\ saves' = saves + 1
                  /\ save_kind' = "improved"
             ELSE UNCHANGED <<best_rate, saves, save_kind>>
          /\ i' = i + 1
          /\ pc' = "loop"
          /\ err' = err
  /\ UNCHANGED <<cfg, t, eps, memory, nIns, online, target, rewards,
                 rewards_sum, closes>>
  /\ UNCHANGED passVars
  /\ UNCHANGED fnVars

\* Lines 201-202: the loop is over; the model is saved, the environment closed.
Finish ==
  /\ pc = "loop"
  /\ i >= cfg.num_episodes
  /\ saves' = saves + 1
  /\ save_kind' = "final"
  /\ closes' = closes + 1
  /\ pc' = "done"
  /\ UNCHANGED <<cfg, err, i, t, eps, memory, nIns, online, target, rewards,
                 rewards_sum, best_rate, batch>>
  /\ UNCHANGED passVars
  /\ UNCHANGED fnVars

\* Line 201: torch.save raises.
FinishSaveFails ==
  /\ pc = "loop"
  /\ i >= cfg.num_episodes
  /\ Fail("IOError")
  /\ UNCHANGED <<cfg, i, t, eps, memory, nIns, online, target, rewards,
                 rewards_sum, best_rate, saves, save_kind, closes, batch>>
  /\ UNCHANGED passVars
  /\ UNCHANGED fnVars

(***************************************************************************)
(* Agent.test                                                              *)
(***************************************************************************)
\* Lines 205-209: the checkpoint is loaded, eps is set to min_eps.
StartTest ==
  /\ pc = "idle"
  /\ pc' = "test_step"
  /\ eps' = cfg.min_eps
  /\ rewards' = 0
  /\ t' = 0
  /\ UNCHANGED <<cfg, err, i, memory, nIns, online, target, rewards_sum,
                 best_rate, saves, save_kind, closes, batch>>
  /\ UNCHANGED passVars
  /\ UNCHANGED fnVars

\* Line 205: torch.load raises (no file at the path, or a corrupt one).
TestLoadFails ==
  /\ pc = "idle"
  /\ Fail("IOError")
  /\ UNCHANGED <<cfg, i, t, eps, memory, nIns, online, target, rewards,
                 rewards_sum, best_rate, saves, save_kind, closes, batch>>
  /\ UNCHANGED passVars
  /\ UNCHANGED fnVars

\* Lines 210-220: one pass of test's while loop; after the last one the
\* outcome is printed and the environment closed.
TestStep(explore, reward, done) ==
  /\ pc = "test_step"
  /\ explore => eps > 0
  /\ ~explore => eps < EpsScale
  /\ (t + 1 >= MaxSteps) => done
  /\ (reward # 0) => done
  /\ LET act == IF explore THEN "ok" ELSE Forward(cfg.variant, 2)
     IN IF act # "ok"
        THEN /\ Fail(act)
             /\ UNCHANGED <<t, rewards, closes>>
        ELSE /\ rewards' = rewards + reward
             /\ t' = t + 1
             /\ pc' = IF done THEN "test_done" ELSE "test_step"
             /\ closes' = IF done THEN closes + 1 ELSE closes
             /\ err' = err
  /\ UNCHANGED <<cfg, i, eps, memory, nIns, online, target, rewards_sum,
                 best_rate, saves, save_kind, batch>>
  /\ fwd' = IF explore THEN fwd ELSE ForwardPass(cfg.variant, 2, noise)
  /\ UNCHANGED <<noise, nEnv, calls>>
  /\ UNCHANGED fnVars

\* env.step raises during the evaluation run.
TestEnvFails ==
  /\ pc = "test_step"
  /\ Fail("EnvError")
  /\ UNCHANGED <<cfg, i, t, eps, memory, nIns, online, target, rewards,
                 rewards_sum, best_rate, saves, save_kind, closes, batch>>
  /\ UNCHANGED passVars
  /\ UNCHANGED fnVars

StepAny == \E explore \in BOOLEAN, reward \in Rewards, done \in BOOLEAN :
             Step(explore, reward, done)

TestStepAny == \E explore \in BOOLEAN, reward \in Rewards, done \in BOOLEAN :
                 TestStep(explore, reward, done)

Next ==
  \/ StartTrain
  \/ BeginEpisode
  \/ StepAny
  \/ StepEnvFails
  \/ EpisodeEnd
  \/ Finish
  \/ FinishSaveFails
  \/ StartTest
  \/ TestLoadFails
  \/ TestStepAny
  \/ TestEnvFails

Spec == Init /\ [][Next]_vars

(***************************************************************************)
(* The state of the agent's fields while a single function is studied.     *)
(***************************************************************************)
Parked(c) ==
  /\ cfg = c
  /\ err = "none"
  /\ i = 0
  /\ t = 0
  /\ eps = c.eps0
  /\ nIns = 0
  /\ online = 0
  /\ target = 0
  /\ rewards = 0
  /\ rewards_sum = 0
  /\ best_rate = [num |-> 0, den |-> 1]
  /\ saves = 0
  /\ save_kind = "none"
  /\ closes = 0
  /\ noise = 0
  /\ fwd = NoForward
  /\ nEnv = 0
  /\ calls = <<>>

agentVars == <<cfg, err, i, t, eps, nIns, online, target, rewards,
               rewards_sum, best_rate, saves, save_kind, closes, noise, fwd,
               nEnv, calls>>

\* The configurations with the default eps.
PlainConfigs ==
  {c \in Configs : Constructible(c) /\ c.eps0 = EpsScale}

(***************************************************************************)
(* SpecMem: the replay memory on its own.                                  *)
(***************************************************************************)
MemTransitions ==
  {tr \in [reward : Rewards, done : BOOLEAN] : tr.reward # 0 => tr.done}

InitMem ==
  /\ \E c \in PlainConfigs, m \in 1 .. MemorySize :
       Parked([c EXCEPT !.memory_size = m])
  /\ cfg.variant = "DQN" /\ ~cfg.is_double
  /\ pc = "memory"
  /\ memory = <<>>
  /\ inserted = <<>>
  /\ batch = NoBatch
  /\ arg = "none"
  /\ res = "none"

\* memory.add_to_memory(...)
MemAdd(tr) ==
  /\ pc = "memory"
  /\ Len(inserted) < MaxAdds
  /\ memory' = add_to_memory(memory, cfg.memory_size, tr)
  /\ inserted' = Append(inserted, tr)
  /\ UNCHANGED <<agentVars, pc, batch, arg, res>>

\* memory.random_batch()
MemSample ==
  /\ pc = "memory"
  /\ IF random_batch(memory, cfg.batch_size) = {}
     THEN batch' = BatchRequest(memory, {})
     ELSE \E S \in random_batch(memory, cfg.batch_size) :
            batch' = BatchRequest(memory, S)
  /\ UNCHANGED <<agentVars, pc, memory, inserted, arg, res>>

MemAddAny == \E tr \in MemTransitions : MemAdd(tr)

NextMem ==
  \/ MemAddAny
  \/ MemSample

SpecMem == InitMem /\ [][NextMem]_vars

\* C1: the memory never holds more than its capacity; it holds the last
\* min(capacity, number of adds) transitions added, in the order they were
\* added.
MemoryHoldsMostRecent ==
  pc = "memory" =>
    /\ Len(memory) <= cfg.memory_size
    /\ Len(memory) = Min(cfg.memory_size, Len(inserted))
    /\ memory = SubSeq(inserted, Len(inserted) - Len(memory) + 1,
                       Len(inserted))

MemoryWrapped ==
  /\ pc = "memory"
  /\ cfg.memory_size = 2
  /\ Len(inserted) = cfg.memory_size + 2
  /\ Len(memory) = cfg.memory_size
  /\ memory[1] # memory[2]

(***************************************************************************)
(* SpecTarget: Agent.get_target.                                           *)
(***************************************************************************)
QValues == {0, 1, 2}

TargetArgs ==
  [reward : Rewards, done : BOOLEAN,
   q_online : [1 .. NumActions -> QValues],
   q_target : [1 .. NumActions -> QValues]]

InitTarget ==
  /\ \E c \in PlainConfigs : Parked(c)
  /\ cfg.batch_size = 1 /\ ~cfg.is_distributional
  /\ pc = "call"
  /\ memory = <<>>
  /\ inserted = <<>>
  /\ batch = NoBatch
  /\ arg \in TargetArgs
  /\ res = Ok(0)

\* self.get_target(reward, done, next_state)
CallGetTarget ==
  /\ pc = "call"
  /\ res' = get_target(cfg.variant, cfg.is_double, arg.reward, arg.done,
                       arg.q_online, arg.q_target)
  /\ pc' = "returned"
  /\ UNCHANGED <<agentVars, memory, inserted, batch, arg>>

NextTarget == CallGetTarget

SpecTarget == InitTarget /\ [][NextTarget]_vars

\* C3: get_target returns reward for a terminal transition, and otherwise
\* reward + gamma * Q(next_state, a*), a* the arg-max of the online network,
\* Q the target network's values in double mode and the online network's
\* otherwise.
TargetIsBellmanBackup ==
  pc = "returned" =>
    LET q == IF cfg.is_double THEN arg.q_target ELSE arg.q_online
        a == ArgMax(arg.q_online)
    IN res = IF arg.done
             THEN Ok(GammaDen * arg.reward)
             ELSE Ok(GammaDen * arg.reward + GammaNum * q[a])

(***************************************************************************)
(* SpecDistr: the target support and the projection of                     *)
(* get_distributional_loss, lines 115-136, for one batch row.  Values are  *)
(* in units of 1/ValueUnit; delta is the fraction DeltaNum / DeltaDen.     *)
(***************************************************************************)
ValueUnit == GammaDen * (NumBins - 1)

Clamp(x, lo, hi) == IF x < lo THEN lo ELSE IF x > hi THEN hi ELSE x

\* Line 65: v_range[j] = linspace(v_min, v_max, num_bins)[j], times ValueUnit.
VRange(dp, j) ==
  GammaDen * (dp.v_min * (NumBins - 1) + (j - 1) * (dp.v_max - dp.v_min))

\* Lines 116-119: d_target, one entry per atom of the support (the scalar of
\* line 116 is broadcast over the atoms).
DTarget(dp, reward, done) ==
  [j \in 1 .. NumBins |->
     IF done
     THEN Clamp((GammaNum * VRange(dp, j)) \div GammaDen + reward * ValueUnit,
                dp.v_min * ValueUnit, dp.v_max * ValueUnit)
     ELSE Clamp(reward * ValueUnit,
                dp.v_min * ValueUnit, dp.v_max * ValueUnit)]

\* Lines 120-121: delta = (d_target - v_min) / v_step.
DeltaNum(dp, d) == (d - dp.v_min * ValueUnit) * (NumBins - 1)
DeltaDen(dp) == ValueUnit * (dp.v_max - dp.v_min)

Floor(n, d) == n \div d
Ceil(n, d) == IF n % d = 0 THEN n \div d ELSE n \div d + 1

RECURSIVE SumTo(_, _)
SumTo(f, n) == IF n = 0 THEN 0 ELSE f[n] + SumTo(f, n - 1)

\* Lines 130-136: the two index_add_ calls.  Entry k (from 0) of the result
\* is the mass at atom k, in units of 1/(MassUnit * DeltaDen).
Projection(dp, d_target, next_action_distr) ==
  [k \in 0 .. NumBins - 1 |->
     LET den == DeltaDen(dp)
         low == [j \in 1 .. NumBins |->
                   LET n == DeltaNum(dp, d_target[j])
                   IN IF Floor(n, den) = k
                      THEN next_action_distr[j] * (Ceil(n, den) * den - n)
                      ELSE 0]
         up  == [j \in 1 .. NumBins |->
                   LET n == DeltaNum(dp, d_target[j])
                   IN IF Ceil(n, den) = k
                      THEN next_action_distr[j] * (n - Floor(n, den) * den)
                      ELSE 0]
     IN SumTo(low, NumBins) + SumTo(up, NumBins)]

DistrParams == [v_min : {-1, 0}, v_max : {1, 2}]

\* The categorical distributions with every mass at least 1/MassUnit
\* (action_distr clamps the masses away from zero).
Distributions ==
  {p \in [1 .. NumBins -> 1 .. MassUnit] : SumTo(p, NumBins) = MassUnit}

DistrArgs ==
  [dp : DistrParams, reward : {-1, 0, 1}, done : BOOLEAN,
   next_action_distr : Distributions]

InitDistr ==
  /\ \E c \in PlainConfigs : Parked(c)
  /\ cfg.batch_size = 1 /\ cfg.is_distributional
  /\ pc = "call"
  /\ memory = <<>>
  /\ inserted = <<>>
  /\ batch = NoBatch
  /\ arg \in DistrArgs
  /\ res = [d_target |-> <<>>, distr_projection |-> <<>>]

\* Lines 115-136 of get_distributional_loss.
CallProjection ==
  /\ pc = "call"
  /\ LET d == DTarget(arg.dp, arg.reward, arg.done)
     IN res' = [d_target |-> d,
                distr_projection |->
                  Projection(arg.dp, d, arg.next_action_distr)]
  /\ pc' = "returned"
  /\ UNCHANGED <<agentVars, memory, inserted, batch, arg>>

NextDistr == CallProjection

SpecDistr == InitDistr /\ [][NextDistr]_vars

\* The mass the projection puts on the atoms 0 .. n.
RECURSIVE MassUpTo(_, _)
MassUpTo(f, n) == IF n < 0 THEN 0 ELSE f[n] + MassUpTo(f, n - 1)

\* C5: the projected distribution carries the whole mass of the source
\* distribution, and a source atom whose delta is an integer puts all of its
\* mass on the atom delta.
ProjectionConservesMass ==
  pc = "returned" =>
    /\ MassUpTo(res.distr_projection, NumBins - 1)
         = MassUnit * DeltaDen(arg.dp)
    /\ \A j \in 1 .. NumBins :
         LET n == DeltaNum(arg.dp, res.d_target[j])
         IN n % DeltaDen(arg.dp) = 0 =>
              res.distr_projection[n \div DeltaDen(arg.dp)]
                >= arg.next_action_distr[j] * DeltaDen(arg.dp)

\* C6: the target support is the clamped reward for a terminal transition
\* and the clamped reward + gamma * support otherwise.
TargetSupportByTerminal ==
  pc = "returned" =>
    res.d_target =
      [j \in 1 .. NumBins |->
         IF arg.done
         THEN Clamp(arg.reward * ValueUnit,
                    arg.dp.v_min * ValueUnit, arg.dp.v_max * ValueUnit)
         ELSE Clamp((GammaNum * VRange(arg.dp, j)) \div GammaDen
                      + arg.reward * ValueUnit,
                    arg.dp.v_min * ValueUnit, arg.dp.v_max * ValueUnit)]

(***************************************************************************)
(* SpecSoftmax: LegalSoftmax.forward.  The result is the score tensor      *)
(* handed to F.softmax, whose probabilities are ordered as the scores are. *)
(***************************************************************************)
Scores == {-1, 0, 1, 2}

\* Lines 61-66: filtered_actions.
LegalSoftmaxScores(x, legal_moves) ==
  [r \in DOMAIN x |->
     [a \in DOMAIN x[r] |->
        LET actions_tensor == IF a \in legal_moves[r] THEN 1 ELSE 0
            filtered == x[r][a] * actions_tensor
        IN IF filtered = 0 THEN Sentinel ELSE filtered]]

SoftmaxArgs ==
  [x : [1 .. BatchRows -> [1 .. NumActions -> Scores]],
   legal_moves : [1 .. BatchRows -> SUBSET (1 .. NumActions)]]

InitSoftmax ==
  /\ \E c \in PlainConfigs : Parked(c)
  /\ cfg.batch_size = 1 /\ cfg.variant = "DQN" /\ ~cfg.is_double
  /\ pc = "call"
  /\ memory = <<>>
  /\ inserted = <<>>
  /\ batch = NoBatch
  /\ arg \in SoftmaxArgs
  /\ res = <<>>

\* LegalSoftmax.forward(x, possible_moves)
CallLegalSoftmax ==
  /\ pc = "call"
  /\ res' = LegalSoftmaxScores(arg.x, arg.legal_moves)
  /\ pc' = "returned"
  /\ UNCHANGED <<agentVars, memory, inserted, batch, arg>>

NextSoftmax == CallLegalSoftmax

SpecSoftmax == InitSoftmax /\ [][NextSoftmax]_vars

\* C10: in a row with a legal action, an action outside the mask gets the
\* score -1000 whatever its raw score, every legal action keeps its raw
\* score, and so the masked action scores below every legal one.
IllegalMaskedLegalKept ==
  pc = "returned" =>
    \A r \in 1 .. BatchRows :
      \A a \in (1 .. NumActions) \ arg.legal_moves[r] :
        arg.legal_moves[r] # {} =>
          /\ res[r][a] = -1000
          /\ \A l \in arg.legal_moves[r] :
               /\ res[r][l] = arg.x[r][l]
               /\ res[r][a] < res[r][l]

(***************************************************************************)
(* Properties of the training and evaluation runs (Spec).                  *)
(***************************************************************************)
InTrain == pc \in {"loop", "step", "episode_end", "done"}

\* C2: a batch is requested only from a memory that holds at least
\* batch_size transitions, and the answer is batch_size distinct stored
\* transitions.
BatchGuardedByOccupancy ==
  batch.asked =>
    /\ batch.occ >= cfg.batch_size
    /\ batch.idx \subseteq 1 .. batch.occ
    /\ Cardinality(batch.idx) = cfg.batch_size

BatchSampled ==
  /\ batch.asked
  /\ cfg.batch_size >= 2
  /\ Cardinality(batch.idx) = cfg.batch_size
  /\ batch.occ > cfg.batch_size

\* C4: the target network changes only in a step of an episode whose index
\* is a multiple of 20, where it becomes the online network; at the end of
\* such an episode the two are equal; a gradient step of any other episode
\* leaves the target network as it was.
TargetSyncedEvery20Episodes ==
  [][ /\ (target' # target) =>
            /\ cfg.is_double
            /\ pc = "step"
            /\ i % 20 = 0
            /\ target' = online'
      /\ (cfg.is_double /\ pc' = "episode_end" /\ i' % 20 = 0) =>
            target' = online'
      /\ (online' # online /\ i % 20 # 0) => target' = target ]_vars

TargetSyncedAfterDrift ==
  /\ cfg.is_double
  /\ pc = "episode_end"
  /\ i = 20
  /\ online = 21
  /\ target = online

\* C7: during train eps changes only in a completed step, never grows, never
\* goes below min_eps, and after episode k its distance to min_eps is at most
\* the initial scale divided by 2^(k-1).
EpsDecaysTowardMin ==
  [][ InTrain =>
        /\ eps' <= eps
        /\ eps' >= cfg.min_eps
        /\ (eps' # eps) => (pc = "step" /\ nIns' = nIns + 1 /\ online' = online + 1)
        /\ (pc' = "loop" /\ i' >= 1) =>
              (eps' - cfg.min_eps) * Pow(2, i' - 1) <= EpsScale ]_vars

EpsReachedMin ==
  /\ pc = "step"
  /\ i >= 2
  /\ cfg.eps0 > cfg.min_eps
  /\ eps = cfg.min_eps

\* C8: a run that has ended, normally or by an exception, has closed the
\* environment exactly once.
EnvClosedOnceAtEnd ==
  pc \in {"done", "test_done", "failed"} => closes = 1

\* C9: the checkpoint is written only at the end of an episode i with
\* i % 10 = 0 and i # 0 whose reward rate exceeds the best rate, which becomes
\* that rate, or when train leaves its loop, where it is always written; the
\* best rate never decreases.
CheckpointOnlyOnImprovementOrEnd ==
  [][ /\ best_rate'.num * best_rate.den >= best_rate.num * best_rate'.den
      /\ (saves' # saves) =>
            /\ saves' = saves + 1
            /\ \/ /\ pc = "episode_end"
                  /\ i % 10 = 0 /\ i # 0
                  /\ rewards_sum * best_rate.den > best_rate.num * i
                  /\ best_rate' = [num |-> rewards_sum, den |-> i]
               \/ /\ pc = "loop" /\ i = cfg.num_episodes /\ pc' = "done"
      /\ (best_rate' # best_rate) => saves' = saves + 1
      /\ (pc = "loop" /\ pc' = "done") =>
            (i = cfg.num_episodes /\ saves' = saves + 1) ]_vars

CheckpointedTwiceThenFinal ==
  /\ pc = "done"
  /\ saves = 3
  /\ best_rate.den = 20

EachStepAppendedThenUpdated ==
  pc \in {"loop", "step", "episode_end", "done", "failed"} =>
    /\ nIns = nEnv
    /\ online = nEnv
    /\ Len(memory) = Min(cfg.memory_size, nEnv)
    /\ (Len(calls) >= 2) => calls = PassCalls

====
